---- MODULE Spec2Model ----
(***************************************************************************)
(* lambda6: the dispatch pipeline of Handler (version 2.0.0), and the      *)
(* metadata lookup and invocation of Handler of version 1.1.               *)
(*                                                                         *)
(* JavaScript values are tagged records: the field t is the tag, strings   *)
(* and numbers carry their text in v, objects and functions carry their    *)
(* prototype chain as a sequence of property maps (own properties first)   *)
(* and the set ro of their non-writable own keys.                          *)
(***************************************************************************)
EXTENDS Integers, Sequences, FiniteSets, TLC

\* ------------------------------------------------------------------------
\* Bounds
\* ------------------------------------------------------------------------
\* the largest number of extra arguments handed to handle(event, context, ...args)
MaxArgs == 2

\* ------------------------------------------------------------------------
\* JavaScript values
\* ------------------------------------------------------------------------
Undefined == [t |-> "undefined"]
Null == [t |-> "null"]
Unset == [t |-> "unset"]
Num(n) == [t |-> "number", v |-> n]
Str(s) == [t |-> "string", v |-> s]
Bool(b) == [t |-> "boolean", v |-> b]
Arr(items) == [t |-> "array", items |-> items]
Obj(props) == [t |-> "object", chain |-> <<props>>, ro |-> {}]
Fn(name, body, props) ==
  [t |-> "function", name |-> name, body |-> body, chain |-> <<props>>, ro |-> {}]
Err(kind, msg) == [t |-> "error", kind |-> kind, msg |-> msg]
NoProps == [k \in {} |-> Undefined]

\* typeof obj
typeof(obj) ==
  IF obj.t \in {"null", "array", "error", "promise"} THEN "object" ELSE obj.t

\* ToBoolean(val), as used by `context && ...` and by `deep ? ... : ...`
Truthy(val) ==
  CASE val.t \in {"undefined", "null", "unset"} -> FALSE
    [] val.t = "boolean" -> val.v = "true"
    [] val.t = "number" -> val.v # "0"
    [] val.t = "string" -> val.v # ""
    [] OTHER -> TRUE

HasChain(obj) == obj.t \in {"object", "function"}

\* Object.keys(obj): the own keys
Keys(obj) == IF HasChain(obj) THEN DOMAIN obj.chain[1] ELSE {}

\* obj.hasOwnProperty(key)
hasOwnProperty(obj, key) == key \in Keys(obj)

\* obj[key]: the first map of the prototype chain that has the key
Get(obj, key) ==
  IF ~HasChain(obj) THEN Undefined
  ELSE LET idx == {i \in 1..Len(obj.chain) : key \in DOMAIN obj.chain[i]}
       IN IF idx = {} THEN Undefined
          ELSE obj.chain[CHOOSE i \in idx : \A j \in idx : i <= j][key]

\* completion of a call: a returned value or a thrown one
Return(v) == [c |-> "return", v |-> v]
Throw(e) == [c |-> "throw", v |-> e]

\* promise states
Pending == [s |-> "pending", v |-> Undefined]
Fulfilled(v) == [s |-> "fulfilled", v |-> v]
Rejected(e) == [s |-> "rejected", v |-> e]
NoPromise == [s |-> "none", v |-> Undefined]

\* obj[key] = val in strict mode: a TypeError on a value that holds no
\* properties and on a non-writable own property; otherwise the own property
\* is set, or added when the object does not have it
PutValue(obj, key, val) ==
  IF ~HasChain(obj)
  THEN Throw(Err("TypeError", "cannot set property " \o key \o " of " \o typeof(obj)))
  ELSE IF key \in obj.ro
       THEN Throw(Err("TypeError", "cannot assign to read only property " \o key))
       ELSE LET own == obj.chain[1]
            IN Return([obj EXCEPT !.chain[1] =
                         [k \in DOMAIN own \cup {key} |-> IF k = key THEN val ELSE own[k]]])

\* obj as it reads once the object its property key refers to has become val
Refresh(obj, key, val) ==
  LET idx == {i \in 1..Len(obj.chain) : key \in DOMAIN obj.chain[i]}
      first == CHOOSE i \in idx : \A j \in idx : i <= j
  IN [obj EXCEPT !.chain[first][key] = val]

RECURSIVE WritePath(_, _, _)

\* root.p1.p2...pn = val: the completion carries root as it reads afterwards
WritePath(root, path, val) ==
  IF Len(path) = 1 THEN PutValue(root, path[1], val)
  ELSE LET w == WritePath(Get(root, path[1]), Tail(path), val)
       IN IF w.c = "throw" THEN w ELSE Return(Refresh(root, path[1], w.v))

\* ------------------------------------------------------------------------
\* Helpers of the module
\* ------------------------------------------------------------------------
\* val === undefined in place of val == null
isUndefinedOrNull_onlyUndefined(val) == val.t = "undefined"

isUndefinedOrNull(val) == val.t \in {"undefined", "null"}

\* checkType without the typeof test
checkType_nullOnly(obj, name, types) ==
  IF isUndefinedOrNull(obj)
  THEN Throw(Err("TypeError", "invalid type for " \o name \o ", cannot be " \o obj.t))
  ELSE Return(Undefined)

\* checkType(obj, name, types): returns, or throws the TypeError that names
\* the value (null, undefined) or its type
checkType(obj, name, types) ==
  IF isUndefinedOrNull(obj)
  THEN Throw(Err("TypeError", "invalid type for " \o name \o ", cannot be " \o obj.t))
  ELSE IF typeof(obj) \notin types
       THEN Throw(Err("TypeError",
                      "invalid type for " \o name \o ", cannot be " \o typeof(obj)))
       ELSE Return(Undefined)

RECURSIVE deepCopy(_)
RECURSIVE createCopyDescriptors(_, _)

\* deepCopy that copies data only: a function in the tree is left out
deepCopy_dataOnly(obj) ==
  IF ~isUndefinedOrNull(obj) /\ typeof(obj) = "object" /\ HasChain(obj)
  THEN [t |-> "object", chain |-> <<createCopyDescriptors(obj, TRUE)>>, ro |-> Keys(obj)]
  ELSE IF typeof(obj) = "function" THEN Undefined ELSE obj

\* Object.create(null, createCopyDescriptors(obj, true, tpl)) for an object,
\* the value itself for anything else (functions included)
deepCopy(obj) ==
  IF ~isUndefinedOrNull(obj) /\ typeof(obj) = "object" /\ HasChain(obj)
  THEN [t |-> "object", chain |-> <<createCopyDescriptors(obj, TRUE)>>, ro |-> Keys(obj)]
  ELSE obj

\* one descriptor per own key: enumerable (from the template), not writable,
\* its value the source's value or a deep copy of it
createCopyDescriptors(obj, deep) ==
  [key \in Keys(obj) |->
     LET val == obj.chain[1][key] IN IF deep THEN deepCopy(val) ELSE val]

\* whether the value of a descriptor is the very value of the source, so
\* that a write to one of its fields is a write to the source's: always
\* without deep, and with deep for everything deepCopy returns as it is
SharedValue(val, deep) ==
  ~(deep /\ ~isUndefinedOrNull(val) /\ typeof(val) = "object" /\ HasChain(val))

\* ------------------------------------------------------------------------
\* Handler
\* ------------------------------------------------------------------------
metadataKey == "_l6_metadata"

defaultOptions == [operationKey |-> Str("operation"), payloadKey |-> Str("payload")]

_defaultMetadata == Obj(NoProps)

\* the constructor with the defaults last: Object.assign({}, options, defaults)
HandlerOptions_defaultsWin(options) == Obj(defaultOptions @@ options)

\* constructor(options): Object.assign({}, Handler.defaultOptions, options)
HandlerOptions(options) == Obj(options @@ defaultOptions)

validateEndpoint(endpoint) == checkType(endpoint, "endpoint", {"function"})

\* getEndpointMetadata that takes every function for an endpoint
getEndpointMetadata_inherited(endpoint) ==
  LET valid == validateEndpoint(endpoint) IN
  IF valid.c = "throw" THEN valid
  ELSE Return(_defaultMetadata)

\* Handler.getEndpointMetadata(endpoint): undefined without an own metadata
\* property, a TypeError for metadata that is not a non-null object
getEndpointMetadata(endpoint) ==
  LET valid == validateEndpoint(endpoint) IN
  IF valid.c = "throw" THEN valid
  ELSE IF ~hasOwnProperty(endpoint, metadataKey) THEN Return(Undefined)
  ELSE LET metadata == Get(endpoint, metadataKey)
           chk == checkType(metadata, "endpoint metadata", {"object"})
       IN IF chk.c = "throw" THEN chk ELSE Return(metadata)

\* operation without validateEndpoint: the metadata is attached to whatever
\* target[key] is
operation_unvalidated(target, key) ==
  LET endpoint == Get(target, key)
      attached == PutValue(endpoint, metadataKey, _defaultMetadata)
  IN IF attached.c = "throw"
     THEN [c |-> attached, target |-> target]
     ELSE [c |-> Return(Undefined), target |-> Refresh(target, key, attached.v)]

\* operation(target, key, descriptor): the decorator validates target[key]
\* and attaches a fresh copy of the default metadata to it.  The result is
\* the completion of the call and target as it reads afterwards.
operation(target, key) ==
  LET endpoint == Get(target, key)
      valid == validateEndpoint(endpoint)
  IN IF valid.c = "throw"
     THEN [c |-> valid, target |-> target]
     ELSE LET attached == PutValue(endpoint, metadataKey, _defaultMetadata)
          IN [c |-> Return(Undefined), target |-> Refresh(target, key, attached.v)]

notFound(op) == Throw(Err("Error", "endpoint not found for operation \"" \o op \o "\""))

\* resolveEndpoint without the catch: the metadata error reaches the caller
resolveEndpoint_rethrow(h, op) ==
  LET chk == checkType(op, "operation", {"string"}) IN
  IF chk.c = "throw"
  THEN [completion |-> chk, lookups |-> <<>>, logged |-> <<>>]
  ELSE LET endpoint == Get(h, op.v)
           md == getEndpointMetadata(endpoint)
       IN [completion |->
             IF md.c = "throw" THEN md
             ELSE IF ~isUndefinedOrNull(md.v) THEN Return(Arr(<<endpoint, md.v>>))
             ELSE notFound(op.v),
           lookups |-> <<op.v>>,
           logged |-> <<>>]

\* resolveEndpoint that validates the member outside the try block: a member
\* that is not a function fails with the TypeError of validateEndpoint
resolveEndpoint_validating(h, op) ==
  LET chk == checkType(op, "operation", {"string"}) IN
  IF chk.c = "throw"
  THEN [completion |-> chk, lookups |-> <<>>, logged |-> <<>>]
  ELSE LET endpoint == Get(h, op.v)
           valid == validateEndpoint(endpoint)
           md == getEndpointMetadata(endpoint)
       IN [completion |->
             IF ~isUndefinedOrNull(endpoint) /\ valid.c = "throw" THEN valid
             ELSE IF ~isUndefinedOrNull(endpoint) /\ md.c = "return" /\ ~isUndefinedOrNull(md.v)
             THEN Return(Arr(<<endpoint, md.v>>))
             ELSE notFound(op.v),
           lookups |-> <<op.v>>,
           logged |->
             IF ~isUndefinedOrNull(endpoint) /\ valid.c = "return" /\ md.c = "throw"
             THEN <<md.v>> ELSE <<>>]

\* resolveEndpoint that checks the registration of the name: the metadata is
\* read from the first definition of the member, that of the base-most type
resolveEndpoint_byName(h, op) ==
  LET chk == checkType(op, "operation", {"string"}) IN
  IF chk.c = "throw"
  THEN [completion |-> chk, lookups |-> <<>>, logged |-> <<>>]
  ELSE LET endpoint == Get(h, op.v)
           idx == {i \in 1..Len(h.chain) : op.v \in DOMAIN h.chain[i]}
           base == CHOOSE i \in idx : \A j \in idx : j <= i
           md == getEndpointMetadata(IF idx = {} THEN endpoint ELSE h.chain[base][op.v])
       IN [completion |->
             IF ~isUndefinedOrNull(endpoint) /\ md.c = "return" /\ ~isUndefinedOrNull(md.v)
             THEN Return(Arr(<<endpoint, md.v>>))
             ELSE notFound(op.v),
           lookups |-> <<op.v>>,
           logged |->
             IF ~isUndefinedOrNull(endpoint) /\ md.c = "throw" THEN <<md.v>> ELSE <<>>]

\* resolveEndpoint(operation): its completion, the members it looked up and
\* what it wrote with console.error
resolveEndpoint(h, op) ==
  LET chk == checkType(op, "operation", {"string"}) IN
  IF chk.c = "throw"
  THEN [completion |-> chk, lookups |-> <<>>, logged |-> <<>>]
  ELSE LET endpoint == Get(h, op.v)
           md == getEndpointMetadata(endpoint)
       IN [completion |->
             IF ~isUndefinedOrNull(endpoint) /\ md.c = "return" /\ ~isUndefinedOrNull(md.v)
             THEN Return(Arr(<<endpoint, md.v>>))
             ELSE notFound(op.v),
           lookups |-> <<op.v>>,
           logged |->
             IF ~isUndefinedOrNull(endpoint) /\ md.c = "throw" THEN <<md.v>> ELSE <<>>]

\* createInvocationContext without the handler as prototype:
\* Object.create(null, descriptors)
createInvocationContext_detached(h, thisArgs) ==
  IF thisArgs.t \notin {"undefined", "null"}
  THEN IF typeof(thisArgs) # "object"
       THEN Throw(Err("TypeError", "thisArgs must be an object"))
       ELSE Return([t |-> "object",
                    chain |-> <<createCopyDescriptors(thisArgs,
                                   Truthy(Get(Get(h, "options"), "deepCopy")))>>,
                    ro |-> Keys(thisArgs)])
  ELSE Return([t |-> "object", chain |-> <<NoProps>>, ro |-> {}])

\* createInvocationContext without the typeof test: a value that is not an
\* object has no keys to copy
createInvocationContext_lenient(h, thisArgs) ==
  IF thisArgs.t \notin {"undefined", "null"}
  THEN Return([t |-> "object",
               chain |-> <<createCopyDescriptors(thisArgs,
                              Truthy(Get(Get(h, "options"), "deepCopy")))>> \o h.chain,
               ro |-> Keys(thisArgs)])
  ELSE Return([t |-> "object", chain |-> <<NoProps>> \o h.chain, ro |-> {}])

\* createInvocationContext whose descriptors are writable
createInvocationContext_writable(h, thisArgs) ==
  IF thisArgs.t \notin {"undefined", "null"}
  THEN IF typeof(thisArgs) # "object"
       THEN Throw(Err("TypeError", "thisArgs must be an object"))
       ELSE Return([t |-> "object",
                    chain |-> <<createCopyDescriptors(thisArgs,
                                   Truthy(Get(Get(h, "options"), "deepCopy")))>> \o h.chain,
                    ro |-> {}])
  ELSE Return([t |-> "object", chain |-> <<NoProps>> \o h.chain, ro |-> {}])

\* createInvocationContext(thisArgs): Object.create(this, descriptors)
createInvocationContext(h, thisArgs) ==
  IF thisArgs.t \notin {"undefined", "null"}
  THEN IF typeof(thisArgs) # "object"
       THEN Throw(Err("TypeError", "thisArgs must be an object"))
       ELSE Return([t |-> "object",
                    chain |-> <<createCopyDescriptors(thisArgs,
                                   Truthy(Get(Get(h, "options"), "deepCopy")))>> \o h.chain,
                    ro |-> Keys(thisArgs)])
  ELSE Return([t |-> "object", chain |-> <<NoProps>> \o h.chain, ro |-> {}])

\* ------------------------------------------------------------------------
\* Endpoints: the code of a handler's methods
\* ------------------------------------------------------------------------
\* what an endpoint's code can do: return a value computed from its this and
\* its arguments, throw, or return a promise that settles later
Behaviours == {"return", "throw", "defer"}
PromiseObj == [t |-> "promise"]
UserError == Err("Error", "test error")
Echo(this, callargs) == Obj([operation |-> Get(this, "operation"), args |-> Arr(callargs)])

\* endpoint.call(ictx, payload, ...args)
EndpointCall(this, callargs, behaviour) ==
  CASE behaviour = "return" -> Return(Echo(this, callargs))
    [] behaviour = "throw" -> Throw(UserError)
    [] OTHER -> Return(PromiseObj)

\* the value an endpoint writes, and the assignments its code attempts
\* through this, each inside try/catch: the paths are those of this
NewValue == Str("newValue")
WriteScripts ==
  {<<>>,
   << <<"event">>, <<"event", "payload">> >>,
   << <<"operation">>, <<"metadata">>, <<"context">> >>,
   << <<"event", "added">>, <<"event", "payload", "name">>, <<"context", "added">> >>,
   << <<"options", "payloadKey">>, <<"options">> >>}

RECURSIVE After(_, _)

\* the context after the assignments of a script, in order: one that throws
\* leaves the context as it was
After(this, script) ==
  IF script = <<>> THEN this
  ELSE LET w == WritePath(this, Head(script), NewValue)
       IN After(IF w.c = "throw" THEN this ELSE w.v, Tail(script))

\* the handler after the endpoint ran: the context delegates to the handler
\* itself, so what was written to an object found through the delegation is
\* written to the handler's object
HandlerAfter(h, this) == [h EXCEPT !.chain = SubSeq(this.chain, 2, Len(this.chain))]

\* the caller's object after the endpoint ran: the object the context's
\* field referred to when that was the caller's own, unchanged otherwise
CallerAfter(h, this, key, val) ==
  IF SharedValue(val, Truthy(Get(Get(h, "options"), "deepCopy")))
  THEN Get(this, key)
  ELSE val

\* the assignments of a script: each with its completion and the context
\* after it
Assign(this, script) ==
  [k \in 1..Len(script) |->
     LET w == WritePath(After(this, SubSeq(script, 1, k - 1)), script[k], NewValue)
     IN [path |-> script[k],
         c |-> IF w.c = "throw" THEN w ELSE Return(NewValue),
         this |-> After(this, SubSeq(script, 1, k))]]

\* invoke with the arguments in the wrong order: the extra arguments first
invoke_argsFirst(h, endpoint, thisArgs, payload, args, behaviour) ==
  LET ic == createInvocationContext(h, thisArgs) IN
  IF ic.c = "throw"
  THEN [ictx |-> Unset, call |-> <<>>, promise |-> Rejected(ic.v), computation |-> NoPromise]
  ELSE LET callargs == args \o <<payload>>
           r == EndpointCall(ic.v, callargs, behaviour)
       IN [ictx |-> ic.v,
           call |-> <<[fn |-> endpoint, this |-> ic.v, args |-> callargs]>>,
           promise |-> IF r.c = "throw" THEN Rejected(r.v)
                       ELSE IF r.v.t = "promise" THEN Pending
                       ELSE Fulfilled(r.v),
           computation |-> IF r.c = "return" /\ r.v.t = "promise" THEN Pending ELSE NoPromise]

\* invoke that takes the returned promise for the result instead of following it
invoke_noFollow(h, endpoint, thisArgs, payload, args, behaviour) ==
  LET ic == createInvocationContext(h, thisArgs) IN
  IF ic.c = "throw"
  THEN [ictx |-> Unset, call |-> <<>>, promise |-> Rejected(ic.v), computation |-> NoPromise]
  ELSE LET callargs == <<payload>> \o args
           r == EndpointCall(ic.v, callargs, behaviour)
       IN [ictx |-> ic.v,
           call |-> <<[fn |-> endpoint, this |-> ic.v, args |-> callargs]>>,
           promise |-> IF r.c = "throw" THEN Rejected(r.v) ELSE Fulfilled(r.v),
           computation |-> IF r.c = "return" /\ r.v.t = "promise" THEN Pending ELSE NoPromise]

\* invoke that calls the endpoint a second time when the first call threw
invoke_retry(h, endpoint, thisArgs, payload, args, behaviour) ==
  LET ic == createInvocationContext(h, thisArgs) IN
  IF ic.c = "throw"
  THEN [ictx |-> Unset, call |-> <<>>, promise |-> Rejected(ic.v), computation |-> NoPromise]
  ELSE LET callargs == <<payload>> \o args
           r == EndpointCall(ic.v, callargs, behaviour)
           made == [fn |-> endpoint, this |-> ic.v, args |-> callargs]
       IN [ictx |-> ic.v,
           call |-> IF r.c = "throw" THEN <<made, made>> ELSE <<made>>,
           promise |-> IF r.c = "throw" THEN Rejected(r.v)
                       ELSE IF r.v.t = "promise" THEN Pending
                       ELSE Fulfilled(r.v),
           computation |-> IF r.c = "return" /\ r.v.t = "promise" THEN Pending ELSE NoPromise]

\* invoke(endpoint, thisArgs, payload, ...args): Promise.try(_invoke).
\* behaviour is what the endpoint's code does when called.  The result
\* names the context built, the call made,
\* the state of the promise returned and that of the promise the endpoint
\* itself returned, if any.
invoke(h, endpoint, thisArgs, payload, args, behaviour) ==
  LET ic == createInvocationContext(h, thisArgs) IN
  IF ic.c = "throw"
  THEN [ictx |-> Unset, call |-> <<>>, promise |-> Rejected(ic.v), computation |-> NoPromise]
  ELSE LET callargs == <<payload>> \o args
           r == EndpointCall(ic.v, callargs, behaviour)
       IN [ictx |-> ic.v,
           call |-> <<[fn |-> endpoint, this |-> ic.v, args |-> callargs]>>,
           promise |-> IF r.c = "throw" THEN Rejected(r.v)
                       ELSE IF r.v.t = "promise" THEN Pending
                       ELSE Fulfilled(r.v),
           computation |-> IF r.c = "return" /\ r.v.t = "promise" THEN Pending ELSE NoPromise]

\* the error a failing succeed or fail of the external context throws
CallbackError(name) == Err("Error", name \o " failed")

\* callContextFn without the typeof test: context[name](value)
callContextFn_unchecked(context, name, value) ==
  IF Truthy(context)
  THEN IF Get(context, name).t = "function"
       THEN [calls |-> <<value>>,
             c |-> IF Get(context, name).body = "throw"
                   THEN Throw(CallbackError(name)) ELSE Return(Undefined)]
       ELSE [calls |-> <<>>, c |-> Throw(Err("TypeError", "context." \o name \o " is not a function"))]
  ELSE [calls |-> <<>>, c |-> Return(Undefined)]

\* callContextFn(name, value) of handle(): whether context[name] was called,
\* with what, and how the call completed
callContextFn(context, name, value) ==
  IF Truthy(context) /\ Get(context, name).t = "function"
  THEN [calls |-> <<value>>,
        c |-> IF Get(context, name).body = "throw"
              THEN Throw(CallbackError(name)) ELSE Return(Undefined)]
  ELSE [calls |-> <<>>, c |-> Return(Undefined)]

\* onSuccess that does not notify the external context
onSuccess_silent(context, result) ==
  [succeed |-> <<>>, fail |-> <<>>, c |-> Return(result)]

\* onSuccess(result): callContextFn('succeed', result); return result
onSuccess(context, result) ==
  LET r == callContextFn(context, "succeed", result) IN
  [succeed |-> r.calls, fail |-> <<>>,
   c |-> IF r.c.c = "throw" THEN r.c ELSE Return(result)]

\* onFailure that wraps the error, as dispatch() of version 1 did
onFailure_wrap(context, error) ==
  LET wrapped == Err("Error", "Unable to execute: " \o error.msg)
      r == callContextFn(context, "fail", error) IN
  [succeed |-> <<>>, fail |-> r.calls,
   c |-> IF r.c.c = "throw" THEN r.c ELSE Throw(wrapped)]

\* onFailure that does not rethrow: the error ends in the callback
onFailure_swallow(context, error) ==
  LET r == callContextFn(context, "fail", error) IN
  [succeed |-> <<>>, fail |-> r.calls,
   c |-> IF r.c.c = "throw" THEN r.c ELSE Return(Undefined)]

\* onFailure that does not notify the external context
onFailure_silent(context, error) ==
  [succeed |-> <<>>, fail |-> <<>>, c |-> Throw(error)]

\* onFailure(error): callContextFn('fail', error); throw error
onFailure(context, error) ==
  LET r == callContextFn(context, "fail", error) IN
  [succeed |-> <<>>, fail |-> r.calls,
   c |-> IF r.c.c = "throw" THEN r.c ELSE Throw(error)]

\* a promise of .then() that forgets a callback that threw
Settle_dropThrow(c) == IF c.c = "return" THEN Fulfilled(c.v) ELSE Pending

\* .then(onSuccess, onFailure): the promise handle() returns takes the
\* completion of the callback that ran
Settle(c) == IF c.c = "return" THEN Fulfilled(c.v) ELSE Rejected(c.v)

\* ------------------------------------------------------------------------
\* Handler of version 1.1 (src/index.js)
\* ------------------------------------------------------------------------
\* val instanceof Object
instanceofObject(val) == val.t \in {"object", "function", "array", "error", "promise"}

\* !val
LogicalNot(val) == Bool(IF Truthy(val) THEN "false" ELSE "true")

\* Handler.validateEndpoint(endpoint) of version 1.1
V1_validateEndpoint(endpoint) ==
  IF isUndefinedOrNull(endpoint)
  THEN Throw(Err("TypeError", "endpoint cannot be null or undefined"))
  ELSE IF typeof(endpoint) # "function"
       THEN Throw(Err("TypeError", "invalid endpoint type, cannot be " \o typeof(endpoint)))
       ELSE Return(Undefined)

\* Handler.getEndpointMetadata(endpoint) of version 1.1: the state of the
\* promise it returns.  The condition is the code's
\*   !endpoint.hasOwnProperty(key) || !(metadata = endpoint[key]) instanceof Object
\* in which ! applies to the assignment and instanceof to the boolean
V1_getEndpointMetadata(endpoint) ==
  LET valid == V1_validateEndpoint(endpoint) IN
  IF valid.c = "throw" THEN Rejected(valid.v)
  ELSE LET metadata == Get(endpoint, metadataKey)
       IN IF ~hasOwnProperty(endpoint, metadataKey) \/ instanceofObject(LogicalNot(metadata))
          THEN Rejected(Err("Error", "endpoint metadata not found"))
          ELSE Fulfilled(metadata)

RECURSIVE V1_deepCopyImmutable(_)

\* deepCopyImmutable(root): for an Object a frozen object without prototype
\* whose properties are the immutable copies of root's own enumerable ones
V1_deepCopyImmutable(root) ==
  IF instanceofObject(root)
  THEN [t |-> "object",
        chain |-> <<[key \in Keys(root) |-> V1_deepCopyImmutable(root.chain[1][key])]>>,
        ro |-> Keys(root)]
  ELSE root

\* invoke(endpoint, thisArgs, payload, ...args) of version 1.1: this is
\* Object.assign(Object.create(handler), deepCopyImmutable(thisArgs)), so the
\* properties of the copy are assigned to a new object as ordinary properties
V1_invoke(h, endpoint, thisArgs, payload, args) ==
  LET ic == V1_deepCopyImmutable(thisArgs)
      _epThis == [t |-> "object", chain |-> <<ic.chain[1]>> \o h.chain, ro |-> {}]
  IN [this |-> _epThis, call |-> [fn |-> endpoint, this |-> _epThis, args |-> <<payload>> \o args]]

\* ------------------------------------------------------------------------
\* The handler under test and the inputs of handle()
\* ------------------------------------------------------------------------
\* the methods of class BaseHandler extends Handler, before decoration
BaseHandlerMethods ==
  Obj([farewell |-> Fn("farewell", "endpoint", NoProps),
       archive |-> Fn("archive", "endpoint", NoProps)])

\* class BaseHandler extends Handler: two registered endpoints
BaseHandlerPrototype ==
  operation(operation(BaseHandlerMethods, "farewell").target, "archive").target.chain[1]

\* the methods of class TestHandler extends BaseHandler, before decoration
TestHandlerMethods ==
  Obj([greet |-> Fn("greet", "endpoint", NoProps),
       archive |-> Fn("archive", "endpoint", NoProps),
       helper |-> Fn("helper", "endpoint", NoProps),
       badmeta |-> Fn("badmeta", "endpoint", (metadataKey :> Num("1"))),
       nullmeta |-> Fn("nullmeta", "endpoint", (metadataKey :> Null))])

\* class TestHandler extends BaseHandler: a registered endpoint, an override
\* of the base's archive that is not registered, a method that was never
\* registered, and two methods whose metadata was set by hand
TestHandlerPrototype == operation(TestHandlerMethods, "greet").target.chain[1]

\* Handler.prototype: the methods of the base class, none of them registered
HandlerPrototype ==
  [handle |-> Fn("handle", "native", NoProps),
   invoke |-> Fn("invoke", "native", NoProps)]

\* new TestHandler(options): the instance, then the prototypes of the
\* derived type, of the base type and of Handler
NewHandler(options) ==
  [t |-> "object",
   chain |-> <<[options |-> HandlerOptions(options)], TestHandlerPrototype,
               BaseHandlerPrototype, HandlerPrototype>>,
   ro |-> {}]

Field(key, val) == IF val = Unset THEN NoProps ELSE (key :> val)

\* no options, or other keys and an option the handler does not know; each
\* with and without deepCopy
OptionChoices ==
  {o @@ Field("deepCopy", c) :
     o \in {NoProps,
            [operationKey |-> Str("type"), payloadKey |-> Str("operation"),
             otherOption |-> Str("otherOptionValue")]},
     c \in {Unset, Bool("true")}}

OperationValues ==
  {Unset, Null, Num("1"), Bool("true"), Str("greet"), Str("helper"), Str("badmeta"), Str("nullmeta"),
   Str("options"), Str("handle"), Str("missing")}

TypeValues == {Unset, Str("greet")}

PayloadValues == {Unset, Str("Hello"), Obj([name |-> Str("Bond")])}

Events ==
  {Null, Undefined} \cup
  {Obj(Field("operation", o) @@ Field("type", y) @@ Field("payload", p)) :
     o \in OperationValues, y \in TypeValues, p \in PayloadValues}

CallbackValues(name) ==
  {Unset, Num("1"), Fn(name, "ok", NoProps), Fn(name, "throw", NoProps)}

Contexts ==
  {Null, Undefined} \cup
  {Obj(Field("succeed", s) @@ Field("fail", f)) :
     s \in CallbackValues("succeed"), f \in CallbackValues("fail")}

\* the extra arguments: 'Matt', 2, 'Matt', ... so that neighbours differ
ArgAt(i) == IF i % 2 = 1 THEN Str("Matt") ELSE Num("2")

ArgLists == {[i \in 1..n |-> ArgAt(i)] : n \in 0..MaxArgs}

\* the calls a caller makes on the handler directly, as the unit tests do
ApiCall(fn, arg) == [fn |-> fn, arg |-> arg]

\* the thisArgs of the deep-copy test: nested objects, null, a number,
\* undefined and a function among the leaves
NestedThisArgs ==
  Obj([event |-> Obj([MethodName |-> Str("createUser")]),
       context |-> Obj([awsRequestId |-> Str("requestId"),
                        objValue |-> Obj([email |-> Str("user@example.com")]),
                        nullValue |-> Null,
                        numberValue |-> Num("3"),
                        undefinedValue |-> Undefined,
                        succeed |-> Fn("succeed", "ok", NoProps)]),
       operation |-> Str("createUser"),
       metadata |-> Obj([key1 |-> Str("val1")])])

\* createInvocationContext(), (null), ({}), (1), ('x'), (function),
\* ({operation, metadata}) and the thisArgs of the deep-copy test
ThisArgsValues ==
  {Undefined, Null, Obj(NoProps), Num("1"), Str("x"), Fn("f", "endpoint", NoProps),
   Obj([operation |-> Str("greet"), metadata |-> Obj([key1 |-> Str("val1")])]),
   NestedThisArgs}

\* the members operation() is applied to: a method, a registered method, an
\* object and a member that does not exist
DecoratedKeys == {"helper", "greet", "options", "missing"}

\* the operations resolveEndpoint is called with twice in a row
RepeatedOperations ==
  {Null, Num("1"), Str("greet"), Str("farewell"), Str("archive"), Str("badmeta"), Str("missing")}

\* the endpoints Handler.getEndpointMetadata of version 1.1 is called with:
\* undefined, false, a function without metadata, one whose metadata is 1
\* and one whose metadata is {a: 'b'}
V1_Endpoints ==
  {Undefined, Bool("false"), Fn("f", "endpoint", NoProps),
   Fn("f", "endpoint", (metadataKey :> Num("1"))),
   Fn("f", "endpoint", (metadataKey :> Obj([a |-> Str("b")])))}

\* the thisArgs handle() of version 1.1 builds for invoke
V1_ThisArgs ==
  Obj([metadata |-> Obj(NoProps),
       operation |-> Str("greet"),
       event |-> Obj([operation |-> Str("greet"), payload |-> Str("Hello")]),
       context |-> Obj([awsRequestId |-> Str("requestId")])])

\* the assignments the endpoint of version 1.1 attempts: to the four
\* properties of this, and before them to a field of the event
V1_Writes ==
  << <<"event", "operation">>, <<"metadata">>, <<"operation">>, <<"event">>, <<"context">> >>

ApiScripts ==
  {<<ApiCall("createInvocationContext", x)>> : x \in ThisArgsValues} \cup
  {<<ApiCall("resolveEndpoint", Str(k)), ApiCall("operation", Str(k)),
     ApiCall("resolveEndpoint", Str(k))>> : k \in DecoratedKeys} \cup
  {<<ApiCall("resolveEndpoint", x), ApiCall("resolveEndpoint", x)>> : x \in RepeatedOperations} \cup
  {<<ApiCall("getEndpointMetadata", x)>> : x \in V1_Endpoints} \cup
  {<<ApiCall("invoke", V1_ThisArgs)>>}

\* a caller: either handle(event, context, ...args), or the direct calls
Callers(E, C, A, P) ==
  {[event |-> e, context |-> c, args |-> a, calls |-> <<>>] : e \in E, c \in C, a \in A} \cup
  {[event |-> Unset, context |-> Unset, args |-> <<>>, calls |-> p] : p \in P}

\* ------------------------------------------------------------------------
\* State
\* ------------------------------------------------------------------------
VARIABLES
  given,         \* the options hash the handler was constructed with
  handler,       \* the handler instance the dispatches run against
  pc,            \* per dispatch: idle, resolved, pending, settled, done, observed
  event,         \* per dispatch: the arguments of handle()
  context,
  args,
  eventNow,      \* per dispatch: the caller's event object as it is now
  contextNow,    \* per dispatch: the caller's context object as it is now
  calls,         \* per caller: the direct calls it makes instead of handle()
  results,       \* per caller: the completions of the direct calls made so far
  extracted,     \* per dispatch: [operation, payload] read from the event
  resolved,      \* per dispatch: the completion of resolveEndpoint
  lookups,       \* per dispatch: the members of the handler that were read
  logged,        \* per dispatch: what was written with console.error
  created,       \* the number of invocation contexts created so far
  instance,      \* per dispatch: which of them the dispatch got, 0 for none
  ictx,          \* per dispatch: the invocation context built
  call,          \* per dispatch: the calls of an endpoint (function, this, arguments)
  writes,        \* per dispatch: the assignments the endpoint attempted through this
  computation,   \* per dispatch: the promise the endpoint returned, if any
  inner,         \* per dispatch: the promise of the resolve/invoke chain
  succeedCalls,  \* per dispatch: the arguments of the calls of context.succeed
  failCalls,     \* per dispatch: the arguments of the calls of context.fail
  future,        \* per dispatch: the promise handle() returned
  observed       \* per dispatch: the outcome the caller's then/catch callback saw

inputVars == <<given, event, context, args, calls>>
callerVars == <<eventNow, contextNow>>
resolveVars == <<extracted, resolved, lookups, logged>>
invokeVars == <<created, instance, ictx, call, writes, computation>>
bridgeVars == <<succeedCalls, failCalls, future>>
vars == <<given, handler, pc, event, context, args, eventNow, contextNow, calls, results, extracted, resolved, lookups,
          logged, created, instance, ictx, call, writes, computation, inner,
          succeedCalls, failCalls, future, observed>>

Dispatches == DOMAIN pc

\* the state after `new TestHandler(options)` for one of the options O, with
\* what the callers D are about to do: handle(event, context, ...args) for an
\* event of E, a context of C and arguments of A, or the direct calls of P
InitFor(D, O, E, C, A, P) ==
  /\ given \in O
  /\ handler = NewHandler(given)
  /\ pc = [d \in D |-> "idle"]
  /\ \E caller \in [D -> Callers(E, C, A, P)] :
       /\ event = [d \in D |-> caller[d].event]
       /\ context = [d \in D |-> caller[d].context]
       /\ eventNow = [d \in D |-> caller[d].event]
       /\ contextNow = [d \in D |-> caller[d].context]
       /\ args = [d \in D |-> caller[d].args]
       /\ calls = [d \in D |-> caller[d].calls]
  /\ results = [d \in D |-> <<>>]
  /\ extracted = [d \in D |-> Unset]
  /\ resolved = [d \in D |-> Unset]
  /\ lookups = [d \in D |-> <<>>]
  /\ logged = [d \in D |-> <<>>]
  /\ created = 0
  /\ instance = [d \in D |-> 0]
  /\ ictx = [d \in D |-> Unset]
  /\ call = [d \in D |-> <<>>]
  /\ writes = [d \in D |-> <<>>]
  /\ computation = [d \in D |-> NoPromise]
  /\ inner = [d \in D |-> NoPromise]
  /\ succeedCalls = [d \in D |-> <<>>]
  /\ failCalls = [d \in D |-> <<>>]
  /\ future = [d \in D |-> NoPromise]
  /\ observed = [d \in D |-> NoPromise]

Init == InitFor({"d1"}, OptionChoices, Events, Contexts, ArgLists, ApiScripts)

\* ------------------------------------------------------------------------
\* Actions
\* ------------------------------------------------------------------------
\* handle() that passes `payload || {}`, as the static handle() of version 1 did
Handle_defaultPayload(d) ==
  /\ pc[d] = "idle"
  /\ calls[d] = <<>>
  /\ IF isUndefinedOrNull(event[d])
     THEN /\ future' = [future EXCEPT ![d] = Rejected(Err("TypeError", "event is required"))]
          /\ pc' = [pc EXCEPT ![d] = "done"]
          /\ UNCHANGED <<resolveVars, inner>>
     ELSE LET options == Get(handler, "options")
              op == Get(event[d], Get(options, "operationKey").v)
              found == Get(event[d], Get(options, "payloadKey").v)
              payload == IF Truthy(found) THEN found ELSE Obj(NoProps)
              r == resolveEndpoint(handler, op)
          IN /\ extracted' = [extracted EXCEPT ![d] =
                                 [t |-> "extracted", operation |-> op, payload |-> payload]]
             /\ resolved' = [resolved EXCEPT ![d] = r.completion]
             /\ lookups' = [lookups EXCEPT ![d] = r.lookups]
             /\ logged' = [logged EXCEPT ![d] = r.logged]
             /\ future' = [future EXCEPT ![d] = Pending]
             /\ IF r.completion.c = "return"
                THEN /\ inner' = [inner EXCEPT ![d] = Pending]
                     /\ pc' = [pc EXCEPT ![d] = "resolved"]
                ELSE /\ inner' = [inner EXCEPT ![d] = Rejected(r.completion.v)]
                     /\ pc' = [pc EXCEPT ![d] = "settled"]
  /\ UNCHANGED <<callerVars, handler, inputVars, results, invokeVars, succeedCalls, failCalls,
                 observed>>

\* handle(event, context, ...args), up to its return: validate the event,
\* extract operation and payload, Promise.try(() => this.resolveEndpoint(operation))
Handle(d) ==
  /\ pc[d] = "idle"
  /\ calls[d] = <<>>
  /\ IF isUndefinedOrNull(event[d])
     THEN /\ future' = [future EXCEPT ![d] = Rejected(Err("TypeError", "event is required"))]
          /\ pc' = [pc EXCEPT ![d] = "done"]
          /\ UNCHANGED <<resolveVars, inner>>
     ELSE LET options == Get(handler, "options")
              op == Get(event[d], Get(options, "operationKey").v)
              payload == Get(event[d], Get(options, "payloadKey").v)
              r == resolveEndpoint(handler, op)
          IN /\ extracted' = [extracted EXCEPT ![d] =
                                 [t |-> "extracted", operation |-> op, payload |-> payload]]
             /\ resolved' = [resolved EXCEPT ![d] = r.completion]
             /\ lookups' = [lookups EXCEPT ![d] = r.lookups]
             /\ logged' = [logged EXCEPT ![d] = r.logged]
             /\ future' = [future EXCEPT ![d] = Pending]
             /\ IF r.completion.c = "return"
                THEN /\ inner' = [inner EXCEPT ![d] = Pending]
                     /\ pc' = [pc EXCEPT ![d] = "resolved"]
                ELSE /\ inner' = [inner EXCEPT ![d] = Rejected(r.completion.v)]
                     /\ pc' = [pc EXCEPT ![d] = "settled"]
  /\ UNCHANGED <<callerVars, handler, inputVars, results, invokeVars, succeedCalls, failCalls,
                 observed>>

\* the callback of .spread() with the invocation context kept on the handler:
\* the context a dispatch built before is used again
Spread_shared(d, behaviour, script) ==
  /\ pc[d] = "resolved"
  /\ script = <<>> \/ behaviour = "return"
  /\ LET endpoint == resolved[d].v.items[1]
         metadata == resolved[d].v.items[2]
         thisArgs == Obj([metadata |-> metadata, operation |-> extracted[d].operation,
                          event |-> event[d], context |-> context[d]])
         i == invoke(handler, endpoint, thisArgs, extracted[d].payload, args[d], behaviour)
         prior == {e \in Dispatches : instance[e] # 0}
         kept == CHOOSE e \in prior : TRUE
         this == IF prior = {} THEN i.ictx ELSE ictx[kept]
     IN /\ ictx' = [ictx EXCEPT ![d] = this]
        /\ created' = IF prior = {} THEN created + 1 ELSE created
        /\ instance' = [instance EXCEPT ![d] = IF prior = {} THEN created + 1 ELSE instance[kept]]
        /\ call' = [call EXCEPT ![d] = @ \o <<[i.call[1] EXCEPT !.this = this]>>]
        /\ writes' = [writes EXCEPT ![d] = Assign(this, script)]
        /\ handler' = HandlerAfter(handler, After(this, script))
        /\ eventNow' = [eventNow EXCEPT ![d] =
                          CallerAfter(handler, After(this, script), "event", event[d])]
        /\ contextNow' = [contextNow EXCEPT ![d] =
                            CallerAfter(handler, After(this, script), "context", context[d])]
        /\ computation' = [computation EXCEPT ![d] = i.computation]
        /\ inner' = [inner EXCEPT ![d] = i.promise]
        /\ pc' = [pc EXCEPT ![d] = IF i.promise.s = "pending" THEN "pending" ELSE "settled"]
  /\ UNCHANGED <<inputVars, results, resolveVars, bridgeVars, observed>>

\* the callback of .spread(): build thisArgs and invoke the endpoint, whose
\* code attempts the assignments of script before it returns
Spread(d, behaviour, script) ==
  /\ pc[d] = "resolved"
  /\ script = <<>> \/ behaviour = "return"
  /\ LET endpoint == resolved[d].v.items[1]
         metadata == resolved[d].v.items[2]
         thisArgs == Obj([metadata |-> metadata, operation |-> extracted[d].operation,
                          event |-> event[d], context |-> context[d]])
         i == invoke(handler, endpoint, thisArgs, extracted[d].payload, args[d], behaviour)
     IN /\ ictx' = [ictx EXCEPT ![d] = i.ictx]
        /\ created' = IF i.call = <<>> THEN created ELSE created + 1
        /\ instance' = [instance EXCEPT ![d] = IF i.call = <<>> THEN 0 ELSE created + 1]
        /\ call' = [call EXCEPT ![d] = @ \o i.call]
        /\ writes' = [writes EXCEPT ![d] =
                        IF i.call = <<>> THEN <<>> ELSE Assign(i.call[1].this, script)]
        /\ handler' = IF i.call = <<>> THEN handler
                      ELSE HandlerAfter(handler, After(i.call[1].this, script))
        /\ eventNow' = [eventNow EXCEPT ![d] =
                          IF i.call = <<>> THEN @
                          ELSE CallerAfter(handler, After(i.call[1].this, script),
                                           "event", event[d])]
        /\ contextNow' = [contextNow EXCEPT ![d] =
                            IF i.call = <<>> THEN @
                            ELSE CallerAfter(handler, After(i.call[1].this, script),
                                             "context", context[d])]
        /\ computation' = [computation EXCEPT ![d] = i.computation]
        /\ inner' = [inner EXCEPT ![d] = i.promise]
        /\ pc' = [pc EXCEPT ![d] = IF i.promise.s = "pending" THEN "pending" ELSE "settled"]
  /\ UNCHANGED <<inputVars, results, resolveVars, bridgeVars, observed>>

\* the promise the endpoint returned settles; the chain follows it
EndpointSettle(d, ok) ==
  /\ computation[d].s = "pending"
  /\ LET outcome == IF ok THEN Fulfilled(Echo(call[d][1].this, call[d][1].args))
                    ELSE Rejected(UserError)
     IN /\ computation' = [computation EXCEPT ![d] = outcome]
        /\ IF pc[d] = "pending"
           THEN /\ inner' = [inner EXCEPT ![d] = outcome]
                /\ pc' = [pc EXCEPT ![d] = "settled"]
           ELSE UNCHANGED <<inner, pc>>
  /\ UNCHANGED <<callerVars, handler, inputVars, results, resolveVars, created, instance, ictx, call,
                 writes, bridgeVars, observed>>

\* the chain written .then(onSuccess).catch(onFailure): an error thrown by
\* onSuccess goes to onFailure as well
Bridge_catch(d) ==
  /\ pc[d] = "settled"
  /\ LET first == IF inner[d].s = "fulfilled"
                  THEN onSuccess(contextNow[d], inner[d].v)
                  ELSE onFailure(contextNow[d], inner[d].v)
         b == IF inner[d].s = "fulfilled" /\ first.c.c = "throw"
              THEN [onFailure(contextNow[d], first.c.v) EXCEPT !.succeed = first.succeed]
              ELSE first
     IN /\ succeedCalls' = [succeedCalls EXCEPT ![d] = @ \o b.succeed]
        /\ failCalls' = [failCalls EXCEPT ![d] = @ \o b.fail]
        /\ future' = [future EXCEPT ![d] = Settle(b.c)]
  /\ pc' = [pc EXCEPT ![d] = "done"]
  /\ UNCHANGED <<callerVars, handler, inputVars, results, resolveVars, invokeVars, inner, observed>>

\* the callbacks of .then(onSuccess, onFailure): notify the external context
\* and settle the promise handle() returned
Bridge(d) ==
  /\ pc[d] = "settled"
  /\ LET b == IF inner[d].s = "fulfilled"
              THEN onSuccess(contextNow[d], inner[d].v)
              ELSE onFailure(contextNow[d], inner[d].v)
     IN /\ succeedCalls' = [succeedCalls EXCEPT ![d] = @ \o b.succeed]
        /\ failCalls' = [failCalls EXCEPT ![d] = @ \o b.fail]
        /\ future' = [future EXCEPT ![d] = Settle(b.c)]
  /\ pc' = [pc EXCEPT ![d] = "done"]
  /\ UNCHANGED <<callerVars, handler, inputVars, results, resolveVars, invokeVars, inner, observed>>

\* the caller's then/catch callback on the returned promise runs
Observe(d) ==
  /\ pc[d] = "done"
  /\ observed' = [observed EXCEPT ![d] = future[d]]
  /\ pc' = [pc EXCEPT ![d] = "observed"]
  /\ UNCHANGED <<callerVars, handler, inputVars, results, resolveVars, invokeVars, inner,
                 bridgeVars>>

\* the direct call a caller makes next
NextCall(d) == calls[d][Len(results[d]) + 1]
Calling(d, fn) == Len(results[d]) < Len(calls[d]) /\ NextCall(d).fn = fn

\* handler.createInvocationContext(thisArgs), called directly
CreateInvocationContext(d) ==
  /\ Calling(d, "createInvocationContext")
  /\ LET r == createInvocationContext(handler, NextCall(d).arg)
     IN /\ results' = [results EXCEPT ![d] = Append(@, r)]
        /\ created' = IF r.c = "throw" THEN created ELSE created + 1
  /\ UNCHANGED <<callerVars, handler, pc, inputVars, resolveVars, instance, ictx, call, writes,
                 computation, inner, bridgeVars, observed>>

\* operation(target, key, descriptor) applied to a member of the handler
Operation(d) ==
  /\ Calling(d, "operation")
  /\ \A e \in Dispatches : pc[e] = "idle"
  /\ LET r == operation(handler, NextCall(d).arg.v)
     IN /\ results' = [results EXCEPT ![d] = Append(@, r.c)]
        /\ handler' = r.target
  /\ UNCHANGED <<callerVars, pc, inputVars, resolveVars, invokeVars, inner, bridgeVars, observed>>

\* resolveEndpoint that remembers the names it looked up: a name resolves
\* once and is not found after that
ResolveEndpoint_once(d) ==
  /\ Calling(d, "resolveEndpoint")
  /\ LET r == resolveEndpoint(handler, NextCall(d).arg)
         seen == \E i \in 1..Len(lookups[d]) : Str(lookups[d][i]) = NextCall(d).arg
     IN /\ results' = [results EXCEPT ![d] =
                          Append(@, IF seen THEN notFound(NextCall(d).arg.v) ELSE r.completion)]
        /\ lookups' = [lookups EXCEPT ![d] = @ \o r.lookups]
        /\ logged' = [logged EXCEPT ![d] = @ \o r.logged]
  /\ UNCHANGED <<callerVars, handler, pc, inputVars, extracted, resolved, invokeVars, inner,
                 bridgeVars, observed>>

\* handler.resolveEndpoint(operation), called directly
ResolveEndpoint(d) ==
  /\ Calling(d, "resolveEndpoint")
  /\ LET r == resolveEndpoint(handler, NextCall(d).arg)
     IN /\ results' = [results EXCEPT ![d] = Append(@, r.completion)]
        /\ lookups' = [lookups EXCEPT ![d] = @ \o r.lookups]
        /\ logged' = [logged EXCEPT ![d] = @ \o r.logged]
  /\ UNCHANGED <<callerVars, handler, pc, inputVars, extracted, resolved, invokeVars, inner,
                 bridgeVars, observed>>

\* Handler.getEndpointMetadata(endpoint) of version 1.1, called directly:
\* the result is the state of the promise returned
GetEndpointMetadata(d) ==
  /\ Calling(d, "getEndpointMetadata")
  /\ results' = [results EXCEPT ![d] = Append(@, V1_getEndpointMetadata(NextCall(d).arg))]
  /\ UNCHANGED <<callerVars, handler, pc, inputVars, resolveVars, invokeVars, inner,
                 bridgeVars, observed>>

\* invoke(endpoint, thisArgs, payload) of version 1.1 with the endpoint
\* greet, whose code attempts the assignments of V1_Writes: the result is
\* the call made and the assignments with their completions
Invoke(d) ==
  /\ Calling(d, "invoke")
  /\ LET i == V1_invoke(handler, Get(handler, "greet"), NextCall(d).arg, Str("Hello"), <<>>)
     IN results' = [results EXCEPT ![d] =
                      Append(@, [call |-> i.call, writes |-> Assign(i.this, V1_Writes)])]
  /\ UNCHANGED <<callerVars, handler, pc, inputVars, resolveVars, invokeVars, inner,
                 bridgeVars, observed>>

Step(d) ==
  \/ \E behaviour \in Behaviours, script \in WriteScripts : Spread(d, behaviour, script)
  \/ \E ok \in BOOLEAN : EndpointSettle(d, ok)
  \/ Bridge(d)
  \/ Observe(d)

Next ==
  \/ \E d \in Dispatches : Handle(d)
  \/ \E d \in Dispatches, behaviour \in Behaviours, script \in WriteScripts :
       Spread(d, behaviour, script)
  \/ \E d \in Dispatches, ok \in BOOLEAN : EndpointSettle(d, ok)
  \/ \E d \in Dispatches : Bridge(d)
  \/ \E d \in Dispatches : Observe(d)
  \/ \E d \in Dispatches : CreateInvocationContext(d)
  \/ \E d \in Dispatches : Operation(d)
  \/ \E d \in Dispatches : ResolveEndpoint(d)
  \/ \E d \in Dispatches : GetEndpointMetadata(d)
  \/ \E d \in Dispatches : Invoke(d)

Spec == Init /\ [][Next]_vars

\* the event loop runs every callback that is ready, and the promise an
\* endpoint returned settles
AllDispatches == {"d1", "d2"}
Fairness == \A d \in AllDispatches : WF_vars(d \in Dispatches /\ Step(d))
\* the calls the progress of a dispatch is checked on
LiveEvents ==
  {Null,
   Obj([operation |-> Num("1")]),
   Obj([operation |-> Str("helper"), payload |-> Str("Hello")]),
   Obj([operation |-> Str("greet"), payload |-> Str("Hello")]),
   Obj([operation |-> Str("greet"), payload |-> Obj([name |-> Str("Bond")])])}
LiveContexts ==
  {Undefined,
   Obj([succeed |-> Fn("succeed", "ok", NoProps), fail |-> Fn("fail", "ok", NoProps)]),
   Obj([succeed |-> Fn("succeed", "throw", NoProps), fail |-> Fn("fail", "throw", NoProps)])}
\* the direct calls made meanwhile: one of each
LiveScripts ==
  {<<ApiCall("createInvocationContext", Obj(NoProps))>>,
   <<ApiCall("resolveEndpoint", Str("helper")), ApiCall("operation", Str("helper")),
     ApiCall("resolveEndpoint", Str("helper"))>>,
   <<ApiCall("getEndpointMetadata", Fn("f", "endpoint", NoProps)),
     ApiCall("invoke", V1_ThisArgs)>>}
FairInit ==
  InitFor({"d1"}, {NoProps, Field("deepCopy", Bool("true"))}, LiveEvents, LiveContexts,
          {<<>>}, LiveScripts)
FairSpec == FairInit /\ [][Next]_vars /\ Fairness

\* two callers of one handler whose calls overlap: dispatches of a
\* registered operation, of one registered on the base type and of one the
\* derived type overrides, with different events and contexts, and direct calls
ConcEvents ==
  {Obj([operation |-> Str("greet"), payload |-> Str("Hello")]),
   Obj([operation |-> Str("farewell"), payload |-> Obj([name |-> Str("Bond")])]),
   Obj([operation |-> Str("archive")])}
ConcContexts ==
  {Undefined,
   Obj([succeed |-> Fn("succeed", "ok", NoProps), fail |-> Fn("fail", "ok", NoProps)])}
ConcScripts ==
  {<<ApiCall("createInvocationContext", Obj(NoProps))>>,
   <<ApiCall("resolveEndpoint", Str("helper")), ApiCall("operation", Str("helper")),
     ApiCall("resolveEndpoint", Str("helper"))>>} \cup
  {<<ApiCall("resolveEndpoint", x), ApiCall("resolveEndpoint", x)>> :
     x \in {Str("farewell"), Str("archive")}} \cup
  {<<ApiCall("getEndpointMetadata", Fn("f", "endpoint", (metadataKey :> Num("1")))),
     ApiCall("invoke", V1_ThisArgs)>>}
ConcInit ==
  InitFor(AllDispatches, {NoProps, Field("deepCopy", Bool("true"))},
          ConcEvents, ConcContexts, {<<>>}, ConcScripts)
ConcSpec == ConcInit /\ [][Next]_vars

\* ------------------------------------------------------------------------
\* Properties
\* ------------------------------------------------------------------------
Started(d) == pc[d] # "idle"
Finished(d) == pc[d] \in {"done", "observed"}
NullEvent(d) == event[d].t \in {"null", "undefined"}
SettledFuture(d) == future[d].s \in {"fulfilled", "rejected"}

\* the operation and the payload the event holds under the configured keys
OperationOf(d) == Get(event[d], HandlerOptions(given).chain[1].operationKey.v)
PayloadOf(d) == Get(event[d], HandlerOptions(given).chain[1].payloadKey.v)

\* the external context has a function under name
Callable(ctx, name) ==
  /\ ctx.t = "object"
  /\ name \in DOMAIN ctx.chain[1]
  /\ ctx.chain[1][name].t = "function"
Throwing(ctx, name) == Callable(ctx, name) /\ ctx.chain[1][name].body = "throw"

\* f is a function that carries its own metadata object
Registered(f) ==
  /\ f.t = "function"
  /\ metadataKey \in DOMAIN f.chain[1]
  /\ f.chain[1][metadataKey].t = "object"

NotFoundError(name) == Err("Error", "endpoint not found for operation \"" \o name \o "\"")

\* the outcome of the endpoint's own computation, synchronous or not
EndpointOutcome(d) ==
  IF call[d] = <<>> THEN NoPromise
  ELSE IF computation[d].s = "none" THEN inner[d] ELSE computation[d]

\* C1: handle() calls a member of the handler only if it is a function with
\* its own metadata object; when the operation names anything else, no call
\* is made and the dispatch is rejected.
C1_UnregisteredNeverInvoked ==
  \A d \in Dispatches :
    /\ \A i \in 1..Len(call[d]) : Registered(call[d][i].fn)
    /\ (Started(d) /\ ~NullEvent(d) /\ OperationOf(d).t = "string"
          /\ ~Registered(Get(handler, OperationOf(d).v)))
       => /\ call[d] = <<>>
          /\ inner[d].s = "rejected"
          /\ Finished(d) => future[d].s = "rejected"

C1_Witness ==
  \E d \in Dispatches :
    /\ pc[d] = "observed"
    /\ OperationOf(d) = Str("helper")
    /\ Get(handler, "helper").t = "function"
    /\ call[d] = <<>>
    /\ observed[d] = Rejected(NotFoundError("helper"))

C3_SucceedOnceBeforeSettled ==
  \A d \in Dispatches :
    /\ Len(succeedCalls[d]) <= 1
    /\ (EndpointOutcome(d).s = "fulfilled" /\ Callable(context[d], "succeed")
          /\ SettledFuture(d))
       => /\ succeedCalls[d] = <<EndpointOutcome(d).v>>
          /\ future[d].s = "fulfilled" => future[d].v = succeedCalls[d][1]
    /\ (observed[d].s = "fulfilled" /\ Callable(context[d], "succeed"))
       => succeedCalls[d] = <<observed[d].v>>

C3_Witness ==
  \E d \in Dispatches :
    /\ observed[d].s = "fulfilled"
    /\ Callable(context[d], "succeed")
    /\ succeedCalls[d] = <<observed[d].v>>

\* C4 as stated: whatever step made the returned promise reject, a callable
\* fail is called exactly once, with the value the promise is rejected with.
C4_FailOnEveryRejection ==
  \A d \in Dispatches :
    (future[d].s = "rejected" /\ Callable(context[d], "fail"))
    => failCalls[d] = <<future[d].v>>

\* C4 amended: when resolution or the endpoint fails with an error e for a
\* non-null event and the context has a callable fail, fail is called exactly
\* once, with e, and the returned promise is rejected with e (with fail's own
\* error when fail throws); a null or undefined event is rejected without a
\* call of fail.
C4_FailOnResolveOrEndpointFailure ==
  \A d \in Dispatches :
    /\ Len(failCalls[d]) <= 1
    /\ (inner[d].s = "rejected" /\ Callable(context[d], "fail") /\ SettledFuture(d))
       => /\ failCalls[d] = <<inner[d].v>>
          /\ future[d] = Rejected(IF Throwing(context[d], "fail")
                                  THEN CallbackError("fail") ELSE inner[d].v)
    /\ (Started(d) /\ NullEvent(d)) => (failCalls[d] = <<>> /\ future[d].s = "rejected")

C4_Witness ==
  \E d \in Dispatches :
    /\ pc[d] = "observed"
    /\ ~NullEvent(d)
    /\ call[d] = <<>>
    /\ resolved[d].c = "throw"
    /\ Callable(context[d], "fail")
    /\ failCalls[d] = <<resolved[d].v>>
    /\ observed[d] = Rejected(resolved[d].v)

\* C5: a null or undefined event is rejected with the type error "event is
\* required" and nothing else happens: nothing is extracted, resolved, built
\* or called, and neither succeed nor fail is called.
C5_NullEventOnlyRejects ==
  \A d \in Dispatches :
    (Started(d) /\ NullEvent(d))
    => /\ future[d] = Rejected(Err("TypeError", "event is required"))
       /\ extracted[d] = Unset
       /\ resolved[d] = Unset
       /\ lookups[d] = <<>>
       /\ ictx[d] = Unset
       /\ call[d] = <<>>
       /\ succeedCalls[d] = <<>>
       /\ failCalls[d] = <<>>

C5_Witness ==
  \E d \in Dispatches :
    /\ Started(d)
    /\ event[d] = Null
    /\ Callable(context[d], "fail")
    /\ Callable(context[d], "succeed")
    /\ observed[d] = Rejected(Err("TypeError", "event is required"))

C7_NonStringOperationRejected ==
  \A d \in Dispatches :
    (Started(d) /\ ~NullEvent(d) /\ OperationOf(d).t # "string")
    => /\ resolved[d] =
            Throw(Err("TypeError", "invalid type for operation, cannot be " \o OperationOf(d).t))
       /\ lookups[d] = <<>>
       /\ call[d] = <<>>
       /\ Finished(d) => future[d].s = "rejected"

C7_Witness ==
  \E d \in Dispatches :
    /\ OperationOf(d) = Num("1")
    /\ pc[d] = "observed"
    /\ lookups[d] = <<>>
    /\ observed[d].s = "rejected"

\* the invocation context of a dispatch as it is after the endpoint's writes
ThisNow(d) == IF writes[d] = <<>> THEN call[d][1].this ELSE writes[d][Len(writes[d])].this

C10_NoBridgeWhilePending ==
  \A d \in Dispatches :
    /\ computation[d].s = "pending"
       => /\ succeedCalls[d] = <<>>
          /\ failCalls[d] = <<>>
          /\ future[d].s = "pending"
          /\ observed[d].s = "none"
    /\ (computation[d].s # "none" /\ succeedCalls[d] # <<>>)
       => (computation[d].s = "fulfilled" /\ succeedCalls[d] = <<computation[d].v>>)
    /\ (computation[d].s # "none" /\ failCalls[d] # <<>>)
       => (computation[d].s = "rejected" /\ failCalls[d] = <<computation[d].v>>)

C10_Witness ==
  \E d \in Dispatches :
    /\ computation[d].s = "pending"
    /\ pc[d] = "pending"
    /\ Callable(context[d], "succeed")
    /\ Callable(context[d], "fail")
    /\ future[d].s = "pending"

\* the value a path of property names leads to
RECURSIVE GetPath(_, _)
GetPath(obj, path) ==
  IF path = <<>> THEN obj ELSE GetPath(Get(obj, Head(path)), Tail(path))

DeepCopyOn == Truthy(Get(Get(handler, "options"), "deepCopy"))
OwnFields == {"metadata", "operation", "event", "context"}

\* the context the k-th assignment of a dispatch found
ContextBefore(d, k) == IF k = 1 THEN call[d][1].this ELSE writes[d][k - 1].this

\* C11: with deepCopy disabled, the own fields of the invocation context are
\* metadata, operation, event and context; an assignment to one of them
\* throws a TypeError and leaves the context as it was, and an assignment to
\* a field of an object held in one of them succeeds.
C11_TopLevelReadOnly ==
  \A d \in Dispatches :
    (~DeepCopyOn /\ call[d] # <<>>)
    => /\ Keys(call[d][1].this) = OwnFields
       /\ \A k \in 1..Len(writes[d]) :
            LET w == writes[d][k]
                before == ContextBefore(d, k)
                holder == GetPath(before, SubSeq(w.path, 1, Len(w.path) - 1))
            IN /\ (Len(w.path) = 1 /\ w.path[1] \in OwnFields)
                  => /\ w.c.c = "throw"
                     /\ w.c.v.kind = "TypeError"
                     /\ w.this = before
               /\ (Len(w.path) > 1 /\ HasChain(holder))
                  => /\ w.c = Return(NewValue)
                     /\ GetPath(w.this, w.path) = NewValue

C11_Witness ==
  \E d \in Dispatches :
    /\ ~DeepCopyOn
    /\ Len(writes[d]) = 2
    /\ writes[d][1].path = <<"event">>
    /\ writes[d][1].c.c = "throw"
    /\ Get(writes[d][1].this, "event") = event[d]
    /\ writes[d][2].path = <<"event", "payload">>
    /\ writes[d][2].c.c = "return"
    /\ GetPath(writes[d][2].this, <<"event", "payload">>) = NewValue

\* C12: with deepCopy enabled no assignment below an own field of the
\* invocation context succeeds, be it to a field a node has or to one it
\* does not have.
C12_DeepCopyNoWriteSucceeds ==
  \A d \in Dispatches :
    (DeepCopyOn /\ call[d] # <<>>)
    => \A k \in 1..Len(writes[d]) :
         writes[d][k].path[1] \in OwnFields
         => /\ writes[d][k].c.c = "throw"
            /\ writes[d][k].this = ContextBefore(d, k)

\* a value without the write protection of its nodes: what it reads as
RECURSIVE Plain(_)
Plain(val) ==
  IF val.t = "object"
  THEN [t |-> "object",
        chain |-> <<[k \in DOMAIN val.chain[1] |-> Plain(val.chain[1][k])]>>,
        ro |-> {}]
  ELSE val

\* C13: every invocation gets an invocation context of its own: no two
\* dispatches hold the same instance, and under every interleaving of
\* overlapping handle() calls the context an endpoint is called with reads
\* the operation, the event and the context of its own dispatch.
C13_FreshContextPerDispatch ==
  \A d \in Dispatches :
    call[d] # <<>>
    => /\ instance[d] # 0
       /\ \A e \in Dispatches \ {d} : instance[e] # instance[d]
       /\ Get(call[d][1].this, "operation") = OperationOf(d)
       /\ Plain(Get(call[d][1].this, "event")) = Plain(event[d])
       /\ Plain(Get(call[d][1].this, "context")) = Plain(context[d])

C13_Witness ==
  /\ call["d1"] # <<>>
  /\ call["d2"] # <<>>
  /\ computation["d1"].s = "pending"
  /\ computation["d2"].s = "pending"
  /\ event["d1"] # event["d2"]
  /\ context["d1"] # context["d2"]
  /\ Get(call["d1"][1].this, "operation") = Str("greet")
  /\ Get(call["d2"][1].this, "operation") = Str("farewell")

\* the outcome of a dispatch as the event, the handler and the endpoint
\* determine it, before the external context is notified
OutcomeBeforeBridge(d) ==
  IF NullEvent(d) THEN Rejected(Err("TypeError", "event is required"))
  ELSE IF inner[d].s = "fulfilled" THEN Fulfilled(inner[d].v)
  ELSE Rejected(inner[d].v)

\* the callback the bridge calls for the outcome of the dispatch
Notified(d) == IF inner[d].s = "fulfilled" THEN "succeed" ELSE "fail"

\* C14 as stated: the outcome of the returned promise is the same whatever
\* external context is passed; calling succeed or fail never changes it.
C14_OutcomeWhateverContext ==
  \A d \in Dispatches : Finished(d) => future[d] = OutcomeBeforeBridge(d)

\* C14: the outcome of the returned promise is the same for no external
\* context, one without succeed and fail, one whose succeed and fail are not
\* functions and one whose succeed or fail returns; a succeed or fail that
\* throws replaces the outcome by a rejection with what it threw.
C14_OutcomeUnlessCallbackThrows ==
  \A d \in Dispatches :
    Finished(d)
    => IF ~NullEvent(d) /\ Throwing(context[d], Notified(d))
       THEN future[d] = Rejected(CallbackError(Notified(d)))
       ELSE future[d] = OutcomeBeforeBridge(d)

C14_Witness ==
  \E d \in Dispatches :
    /\ Finished(d)
    /\ context[d].t = "object"
    /\ Get(context[d], "succeed") = Num("1")
    /\ ~Callable(context[d], "fail")
    /\ succeedCalls[d] = <<>>
    /\ future[d].s = "fulfilled"
    /\ future[d] = OutcomeBeforeBridge(d)

\* the direct calls of fn a caller has made: their positions in its script
Made(d, fn) == {k \in 1..Len(results[d]) : calls[d][k].fn = fn}

\* this is what createInvocationContext builds from thisArgs: an object whose
\* prototype is the handler and whose own fields are those of thisArgs, each
\* reading as the value supplied (the value itself without deepCopy)
BuiltFrom(this, thisArgs) ==
  /\ this.t = "object"
  /\ this # handler
  /\ Tail(this.chain) = handler.chain
  /\ Get(this, "options") = Get(handler, "options")
  /\ \A m \in {"greet", "helper", "handle", "invoke"} :
       Get(this, m) = Get(handler, m) /\ Get(this, m).t = "function"
  /\ Keys(this) = Keys(thisArgs)
  /\ \A key \in Keys(thisArgs) :
       /\ Plain(Get(this, key)) = Plain(Get(thisArgs, key))
       /\ ~DeepCopyOn => Get(this, key) = Get(thisArgs, key)

\* C15: createInvocationContext returns a new object that delegates to the
\* handler (its options and its methods are reachable) and whose own fields
\* are exactly the entries of thisArgs, each reading as the value supplied,
\* both when called directly and when invoke calls it for a dispatch (seen
\* as it was built: before the endpoint wrote anything).
C15_ContextDelegatesAndCarriesFields ==
  \A d \in Dispatches :
    /\ \A k \in Made(d, "createInvocationContext") :
         results[d][k].c = "return" => BuiltFrom(results[d][k].v, calls[d][k].arg)
    /\ (call[d] # <<>> /\ writes[d] = <<>>)
       => BuiltFrom(ictx[d],
                    Obj([metadata |-> Get(Get(handler, OperationOf(d).v), metadataKey),
                         operation |-> OperationOf(d),
                         event |-> event[d],
                         context |-> context[d]]))

C15_Witness ==
  \E d \in Dispatches :
    /\ Made(d, "createInvocationContext") = {1}
    /\ results[d][1].c = "return"
    /\ Keys(results[d][1].v) = {"operation", "metadata"}
    /\ Get(results[d][1].v, "operation") = Str("greet")
    /\ Get(Get(results[d][1].v, "metadata"), "key1") = Str("val1")
    /\ Get(Get(results[d][1].v, "options"), "operationKey").t = "string"

\* the invocation contexts built so far: by direct calls and for dispatches
ContextsBuilt ==
  Cardinality(UNION {{<<d, k>> : k \in {j \in Made(d, "createInvocationContext") :
                                            results[d][j].c = "return"}} :
                     d \in Dispatches})
  + Cardinality({d \in Dispatches : instance[d] # 0})

\* C16: createInvocationContext throws TypeError('thisArgs must be an
\* object') and builds no context when thisArgs is given and is not an object
\* (a number, a string, a function); it returns a context when thisArgs is
\* absent, null or an object, the empty one included.
C16_NonObjectThisArgsRejected ==
  /\ created = ContextsBuilt
  /\ \A d \in Dispatches : \A k \in Made(d, "createInvocationContext") :
       IF calls[d][k].arg.t \in {"undefined", "null", "object"}
       THEN results[d][k].c = "return" /\ results[d][k].v.t = "object"
       ELSE results[d][k] = Throw(Err("TypeError", "thisArgs must be an object"))

C16_Witness ==
  \E d \in Dispatches :
    /\ calls[d] = <<ApiCall("createInvocationContext", Num("1"))>>
    /\ results[d] = <<Throw(Err("TypeError", "thisArgs must be an object"))>>
    /\ created = 0

\* the caller applies operation() to the member key of the handler, and
\* resolves key before and after
Decorating(d, key) ==
  calls[d] = <<ApiCall("resolveEndpoint", Str(key)), ApiCall("operation", Str(key)),
               ApiCall("resolveEndpoint", Str(key))>>

\* C17: operation() throws a TypeError that names the type of the candidate
\* and attaches nothing when the candidate is not a function; for a function
\* it attaches a metadata object, and resolveEndpoint returns the function
\* for its name after that and, for a method never registered, not before;
\* applied to a registered method it leaves resolveEndpoint returning what it
\* returned before, with equivalent metadata.
C17_OperationRegisters ==
  \A d \in Dispatches : \A key \in DecoratedKeys :
    Decorating(d, key)
    => LET candidate == Get(handler, key) IN
       /\ (Len(results[d]) >= 1 /\ key # "greet") => results[d][1] = Throw(NotFoundError(key))
       /\ (Len(results[d]) >= 1 /\ key = "greet") => results[d][1].c = "return"
       /\ Len(results[d]) >= 2
          => IF candidate.t = "function"
             THEN /\ results[d][2] = Return(Undefined)
                  /\ Get(candidate, metadataKey) = Obj(NoProps)
             ELSE /\ results[d][2] =
                       Throw(Err("TypeError", "invalid type for endpoint, cannot be "
                                                \o typeof(candidate)))
                  /\ handler \in {NewHandler(o) : o \in OptionChoices}
       /\ Len(results[d]) = 3
          => IF candidate.t = "function"
             THEN /\ results[d][3] = Return(Arr(<<candidate, Obj(NoProps)>>))
                  /\ key = "greet" => results[d][3] = results[d][1]
             ELSE results[d][3] = Throw(NotFoundError(key))

C17_Witness ==
  \E d \in Dispatches :
    /\ Decorating(d, "helper")
    /\ Len(results[d]) = 3
    /\ results[d][1] = Throw(NotFoundError("helper"))
    /\ results[d][3].c = "return"
    /\ results[d][3].v.items[1].name = "helper"

\* the event of the dispatch has no value under the configured payload key
PayloadAbsent(d) == ~NullEvent(d) /\ PayloadOf(d) = Undefined

\* C18 as stated: when the event has no value under the payload key, the
\* endpoint is called with an empty object as payload.
C18_AbsentPayloadIsEmptyMapping ==
  \A d \in Dispatches :
    (call[d] # <<>> /\ PayloadAbsent(d)) => call[d][1].args[1] = Obj(NoProps)

\* C18: when the event has no value under the payload key, the endpoint is
\* called with undefined as payload: handle() passes event[payloadKey] as
\* it is.
C18_AbsentPayloadIsUndefined ==
  \A d \in Dispatches :
    (call[d] # <<>> /\ PayloadAbsent(d))
    => /\ call[d][1].args[1] = Undefined
       /\ call[d][1].args = <<Undefined>> \o args[d]
       /\ extracted[d].payload = Undefined

C18_Witness ==
  \E d \in Dispatches :
    /\ PayloadAbsent(d)
    /\ call[d] # <<>>
    /\ call[d][1].args[1] = Undefined
    /\ observed[d].s = "fulfilled"
    /\ observed[d].v.chain[1].args.items[1] = Undefined

\* the operation of the dispatch is a string that names a member of the
\* handler that exists and is not a function
NamesNonCallable(d) ==
  /\ Started(d)
  /\ ~NullEvent(d)
  /\ OperationOf(d).t = "string"
  /\ ~isUndefinedOrNull(Get(handler, OperationOf(d).v))
  /\ Get(handler, OperationOf(d).v).t # "function"

FailureOf(d) ==
  IF NullEvent(d) THEN Rejected(Err("TypeError", "event is required"))
  ELSE IF resolved[d] # Unset /\ resolved[d].c = "throw" THEN Rejected(resolved[d].v)
  ELSE IF EndpointOutcome(d).s = "rejected" THEN EndpointOutcome(d)
  ELSE NoPromise

\* handle() has returned a promise, and once the dispatch has finished its
\* failure is the rejection of that promise, unless fail threw an error of
\* its own, which then is the rejection
FailureReachesCaller(d) ==
  /\ Started(d) => future[d].s # "none"
  /\ (Finished(d) /\ FailureOf(d).s = "rejected")
     => IF ~NullEvent(d) /\ Throwing(context[d], "fail")
        THEN future[d] = Rejected(CallbackError("fail"))
        ELSE future[d] = FailureOf(d)

StepRank(p) ==
  CASE p = "idle" -> 0
    [] p = "resolved" -> 1
    [] p = "pending" -> 2
    [] p = "settled" -> 3
    [] p = "done" -> 4
    [] p = "observed" -> 5

Notifications(d) == succeedCalls[d] \o failCalls[d]

\* C21: the steps of a dispatch run in the order validate, extract, resolve,
\* build context, invoke, bridge and none runs twice: a dispatch never goes
\* back to an earlier step, what it extracted and resolved is set once, the
\* endpoint is invoked once at most, only after the resolution succeeded and
\* with the context built for it, and succeed or fail is called once at
\* most, only after the outcome before it is available
C21_StepsInOrderOnce ==
  [][\A d \in Dispatches :
       /\ StepRank(pc'[d]) >= StepRank(pc[d])
       /\ extracted[d] # Unset => extracted'[d] = extracted[d]
       /\ resolved[d] # Unset => resolved'[d] = resolved[d]
       /\ resolved'[d] # resolved[d] => pc[d] = "idle" /\ extracted'[d] # Unset
       /\ call[d] # <<>> => call'[d] = call[d]
       /\ call'[d] # call[d] =>
            /\ pc[d] = "resolved"
            /\ resolved[d].c = "return"
            /\ Len(call'[d]) = 1
            /\ call'[d][1].fn = resolved[d].v.items[1]
            /\ ictx'[d] # Unset /\ call'[d][1].this = ictx'[d]
            /\ Notifications(d) = <<>>
       /\ Notifications(d) # <<>> =>
            succeedCalls'[d] = succeedCalls[d] /\ failCalls'[d] = failCalls[d]
       /\ Notifications(d)' # Notifications(d) =>
            /\ pc[d] = "settled"
            /\ inner[d].s \in {"fulfilled", "rejected"}
            /\ inner'[d] = inner[d]
            /\ Len(Notifications(d)') = 1
            /\ resolved[d].c = "return" => ictx[d] # Unset \/ call[d] = <<>>
            /\ inner[d].s = "fulfilled" => Len(call[d]) = 1]_vars

C21_Witness ==
  \E d \in Dispatches :
    /\ pc[d] = "observed"
    /\ Len(call[d]) = 1
    /\ computation[d].s = "fulfilled"
    /\ Len(succeedCalls[d]) = 1

\* ------------------------------------------------------------------------
\* What a dispatch leaves behind
\* ------------------------------------------------------------------------
\* C22: the options of a handler are read-only once it is constructed:
\* whatever the endpoints of its dispatches write through this, to
\* this.options or to a field of this.options, the handler's options are
\* those set at construction.
C22_OptionsAsConstructed ==
  Get(handler, "options") = HandlerOptions(given)

\* ------------------------------------------------------------------------
\* Options and extraction
\* ------------------------------------------------------------------------
\* the value of an option of the handler under construction: the one given,
\* the default otherwise
OptionGiven(name) ==
  IF name \in DOMAIN given THEN given[name]
  ELSE IF name = "operationKey" THEN Str("operation")
  ELSE IF name = "payloadKey" THEN Str("payload")
  ELSE Undefined

\* what the lookup of an operation gives on the handler of the tests: the
\* member and its metadata for the name of a registered method, a failure
\* for anything else
ResolvesTo(op, completion) ==
  IF op.t = "string" /\ op.v \in {"greet", "farewell"}
  THEN completion =
         Return(Arr(<<Get(NewHandler(NoProps), op.v), _defaultMetadata>>))
  ELSE completion.c = "throw"

\* C23: the options of a handler are the defaults operationKey 'operation'
\* and payloadKey 'payload' overridden by the options given, an additional
\* option given being kept; handle() reads the operation from the event's
\* field named by operationKey and the payload from the one named by
\* payloadKey, and the endpoint resolved depends on that operation alone.
C23_OptionsSelectEventFields ==
  /\ (\A d \in Dispatches : pc[d] = "idle")
     => /\ Keys(Get(handler, "options")) = DOMAIN given \cup {"operationKey", "payloadKey"}
        /\ \A name \in Keys(Get(handler, "options")) :
             Get(Get(handler, "options"), name) = OptionGiven(name)
  /\ \A d \in Dispatches :
       extracted[d] # Unset
       => /\ extracted[d].operation = Get(event[d], OptionGiven("operationKey").v)
          /\ extracted[d].payload = Get(event[d], OptionGiven("payloadKey").v)
          /\ ResolvesTo(Get(event[d], OptionGiven("operationKey").v), resolved[d])
          /\ call[d] # <<>>
             => /\ call[d][1].fn =
                     Get(NewHandler(NoProps), Get(event[d], OptionGiven("operationKey").v).v)
                /\ call[d][1].args[1] = Get(event[d], OptionGiven("payloadKey").v)

\* a handler constructed with other keys and an unknown option dispatched an
\* event that names another member under the default key
C23_Witness ==
  \E d \in Dispatches :
    /\ "otherOption" \in Keys(Get(handler, "options"))
    /\ Get(Get(handler, "options"), "operationKey") = Str("type")
    /\ Get(event[d], "type") = Str("greet")
    /\ Get(event[d], "operation") = Str("helper")
    /\ Get(event[d], "payload") = Str("Hello")
    /\ pc[d] = "observed"
    /\ Len(call[d]) = 1
    /\ call[d][1].fn.name = "greet"
    /\ call[d][1].args[1] = Str("helper")

\* ------------------------------------------------------------------------
\* Deep copies
\* ------------------------------------------------------------------------
RECURSIVE SameTree(_, _)

\* a copy and its source are structurally equal: objects with the same keys
\* at every depth, the same primitive leaves, and every function the very
\* function of the source
SameTree(copy, source) ==
  IF source.t = "object"
  THEN /\ copy.t = "object"
       /\ Keys(copy) = Keys(source)
       /\ \A key \in Keys(source) : SameTree(copy.chain[1][key], source.chain[1][key])
  ELSE copy = source

RECURSIVE Leaves(_)

\* the leaves of a tree of objects
Leaves(val) ==
  IF val.t = "object" THEN UNION {Leaves(val.chain[1][key]) : key \in Keys(val)} ELSE {val}

Redecorated(op) ==
  \E e \in Dispatches : \E j \in 1..Len(results[e]) : calls[e][j] = ApiCall("operation", op)

\* a dispatch ran its endpoint in this run
SomeDispatchRan == \E e \in Dispatches : call[e] # <<>> /\ Finished(e)

Definitions(name) ==
  [i \in {j \in 1..Len(handler.chain) : name \in DOMAIN handler.chain[j]} |-> handler.chain[i][name]]

\* the completions of the resolutions of an operation made so far, by
\* dispatches and by direct calls
Resolutions(op) ==
  {resolved[d] : d \in {e \in Dispatches : resolved[e] # Unset /\ extracted[e].operation = op}}
  \cup UNION {{results[d][k] : k \in {j \in Made(d, "resolveEndpoint") : calls[d][j].arg = op}} :
                d \in Dispatches}

\* C30: registration is checked on the function the lookup finds, not on the
\* name.  farewell is defined and registered on the base type only: through
\* an instance of the derived type it resolves to the base's function and is
\* dispatched.  archive is registered on the base type and overridden on the
\* derived type without registration: it resolves to not-found and the
\* override is never called.
C30_RegistrationOfFunctionFound ==
  /\ DOMAIN Definitions("farewell") = {3}
  /\ Registered(Definitions("farewell")[3])
  /\ Resolutions(Str("farewell")) \subseteq {Return(Arr(<<Definitions("farewell")[3], _defaultMetadata>>))}
  /\ DOMAIN Definitions("archive") = {2, 3}
  /\ Registered(Definitions("archive")[3])
  /\ ~hasOwnProperty(Definitions("archive")[2], metadataKey)
  /\ Resolutions(Str("archive")) \subseteq {notFound("archive")}
  /\ \A d \in Dispatches :
       /\ (extracted[d] # Unset /\ extracted[d].operation = Str("archive"))
          => /\ call[d] = <<>>
             /\ Finished(d) => future[d] = Rejected(notFound("archive").v)
       /\ (extracted[d] # Unset /\ extracted[d].operation = Str("farewell") /\ Finished(d))
          => /\ Len(call[d]) = 1
             /\ call[d][1].fn = Definitions("farewell")[3]

\* both were dispatched: farewell ran the base's function, archive was
\* rejected as not found
C30_Witness ==
  \E d \in Dispatches, e \in Dispatches :
    /\ extracted[d] # Unset /\ extracted[d].operation = Str("farewell")
    /\ pc[d] = "observed" /\ observed[d].s = "fulfilled"
    /\ call[d][1].fn.name = "farewell"
    /\ extracted[e] # Unset /\ extracted[e].operation = Str("archive")
    /\ pc[e] = "observed" /\ observed[e] = Rejected(notFound("archive").v)

\* ------------------------------------------------------------------------
\* Handler of version 1.1
\* ------------------------------------------------------------------------
\* C26: Handler.getEndpointMetadata of version 1.1 rejects a function whose
\* metadata property is present but is not an object with the Error
\* 'endpoint metadata not found', as it does a function without metadata,
\* and resolves with the metadata only when it is an object.
C26_NonObjectMetadataRejected ==
  \A d \in Dispatches : \A k \in Made(d, "getEndpointMetadata") :
    LET endpoint == calls[d][k].arg IN
    endpoint.t = "function"
    => IF hasOwnProperty(endpoint, metadataKey) /\ Get(endpoint, metadataKey).t = "object"
       THEN results[d][k] = Fulfilled(Get(endpoint, metadataKey))
       ELSE results[d][k] = Rejected(Err("Error", "endpoint metadata not found"))

\* C27: this of an endpoint of version 1.1 exposes metadata, operation,
\* event and context as immutable properties: an assignment to any of the
\* four throws a TypeError and leaves this as it was, and the values are
\* read-only copies of what was handed in.
C27_V1ContextPropertiesImmutable ==
  \A d \in Dispatches : \A k \in Made(d, "invoke") :
    LET r == results[d][k] IN
    /\ \A key \in OwnFields :
         Plain(Get(r.call.this, key)) = Plain(Get(calls[d][k].arg, key))
    /\ \A j \in 1..Len(r.writes) :
         /\ r.writes[j].c.c = "throw"
         /\ r.writes[j].c.v.kind = "TypeError"
         /\ r.writes[j].this = r.call.this

\* ------------------------------------------------------------------------
\* Side effects of a dispatch
\* ------------------------------------------------------------------------
\* C28: a dispatch has no side effect on the caller's event and context:
\* whatever the endpoint writes through this.event, this.context and their
\* nested fields, the objects handed to handle() are as they were.
C28_CallerObjectsUntouched ==
  \A d \in Dispatches : eventNow[d] = event[d] /\ contextNow[d] = context[d]

\* C29: no dispatch calls both succeed and fail: succeed is called only
\* when the resolve/invoke chain fulfilled, fail only when it rejected, and
\* when succeed itself throws fail is not called for it: the error only
\* rejects the promise handle() returned.
C29_NeverBothCallbacks ==
  \A d \in Dispatches :
    /\ ~(succeedCalls[d] # <<>> /\ failCalls[d] # <<>>)
    /\ succeedCalls[d] # <<>> => inner[d].s = "fulfilled" /\ succeedCalls[d] = <<inner[d].v>>
    /\ failCalls[d] # <<>> => inner[d].s = "rejected" /\ failCalls[d] = <<inner[d].v>>
    /\ (Finished(d) /\ inner[d].s = "fulfilled" /\ Throwing(context[d], "succeed"))
       => /\ failCalls[d] = <<>>
          /\ future[d] = Rejected(CallbackError("succeed"))

\* succeed threw in a dispatch whose context has a callable fail
C29_Witness ==
  \E d \in Dispatches :
    /\ pc[d] = "observed"
    /\ inner[d].s = "fulfilled"
    /\ Throwing(context[d], "succeed")
    /\ Callable(context[d], "fail")
    /\ Len(succeedCalls[d]) = 1
    /\ failCalls[d] = <<>>
    /\ observed[d] = Rejected(CallbackError("succeed"))
====
